---- MODULE Spec2Model ----
(***************************************************************************)
(* A model of log_merger.py: merging bWell JSON log files.                 *)
(*                                                                         *)
(* Files on disk hold JSON documents by value.  One run (main) loads the   *)
(* input files into in-memory documents, validates them, concatenates and  *)
(* sorts their records, builds the merge lineage and writes the result.    *)
(* In-memory documents hold their previous_merges list by reference, so    *)
(* that the sharing between the base document and the result is visible.   *)
(***************************************************************************)
EXTENDS Integers, Sequences, FiniteSets, TLC

\* Bounds of the model.
MaxRecs == 2        \* records in the data list of an initial file
MaxInputs == 2      \* paths given to one run
MaxClock == 3       \* merges that complete (each reads the clock once)
MaxLong == 4        \* records in the data list of a long initial file

Ids == {"x", "y", "z"}          \* file paths
InitialIds == {"x", "y"}        \* files that exist before the first run
OutputIds == Ids \ InitialIds   \* where the runs write their result

-----------------------------------------------------------------------------
(* JSON values *)

\* A timestamp value as json.load gives it: a number, NaN, a string (n is its
\* rank in string order) or null.
Num(n) == [t |-> "num", n |-> n]
NaN == [t |-> "nan", n |-> 0]
Str(n) == [t |-> "str", n |-> n]
Null == [t |-> "null", n |-> 0]
Missing == [t |-> "missing", n |-> 0]    \* the key "timestamp" is not in the record

\* A record of a data list: a JSON object (with or without "timestamp") or
\* any other JSON value.
\* An object also has fields the merge never reads; rest stands for them.
ObjWith(ts, rest) == [type |-> "object", timestamp |-> ts, rest |-> rest]
Obj(ts) == ObjWith(ts, 0)
Scalar == [type |-> "scalar", timestamp |-> Missing, rest |-> 0]

\* The "data" field of a document: missing, not a list, or a list of records.
NoData == [kind |-> "missing", items |-> <<>>]
NotAList == [kind |-> "notlist", items |-> <<>>]
DataList(s) == [kind |-> "list", items |-> s]

\* The "merged_sources" field of a document on disk; previous_merges by value.
NoSources ==
    [present |-> FALSE, merged_at |-> 0, base_file |-> "", additional_files |-> <<>>,
     total_files_merged |-> 0, previous_merges |-> [present |-> FALSE, items |-> <<>>]]

\* The same field of a document in memory; previous_merges is a reference.
FreshRef == 0
Refs == 0..MaxInputs
NoSourcesMem ==
    [present |-> FALSE, merged_at |-> 0, base_file |-> "", additional_files |-> <<>>,
     total_files_merged |-> 0, previous_merges |-> [present |-> FALSE, ref |-> FreshRef]]

NoDoc == [data |-> NoData, merged_sources |-> NoSourcesMem]
NoError == [kind |-> "none", file |-> ""]

SeqsUpTo(S, n) == UNION {[1..k -> S] : k \in 0..n}

-----------------------------------------------------------------------------
VARIABLES
    files,              \* path -> document on disk
    clock,              \* datetime.now()
    pc,                 \* position of the run
    file_paths,         \* argument of merge_log_files
    log_data_list,      \* the loaded documents, in input order
    heap,               \* reference -> contents of a previous_merges list
    all_data_records,
    additional_files,
    merged_result,
    error,              \* the exception raised, if any
    chains,             \* history: path -> the merges that made the file, in order
    chain               \* history: the merges that made merged_result

vars == <<files, clock, pc, file_paths, log_data_list, heap,
          all_data_records, additional_files, merged_result, error, chains, chain>>

-----------------------------------------------------------------------------
(* load_json_file / json.dump *)

\* json.load: every list of the file becomes a new list object; the
\* previous_merges list of the i-th loaded document lives at reference i.
load_json_file(doc, i) ==
    [data |-> doc.data,
     merged_sources |->
        [present |-> doc.merged_sources.present,
         merged_at |-> doc.merged_sources.merged_at,
         base_file |-> doc.merged_sources.base_file,
         additional_files |-> doc.merged_sources.additional_files,
         total_files_merged |-> doc.merged_sources.total_files_merged,
         previous_merges |->
            IF doc.merged_sources.previous_merges.present
            THEN [present |-> TRUE, ref |-> i]
            ELSE [present |-> FALSE, ref |-> FreshRef]]]

\* json.dump: the document by value, references followed.
Dump(doc, h) ==
    [data |-> doc.data,
     merged_sources |->
        [present |-> doc.merged_sources.present,
         merged_at |-> doc.merged_sources.merged_at,
         base_file |-> doc.merged_sources.base_file,
         additional_files |-> doc.merged_sources.additional_files,
         total_files_merged |-> doc.merged_sources.total_files_merged,
         previous_merges |->
            IF doc.merged_sources.previous_merges.present
            THEN [present |-> TRUE, items |-> h[doc.merged_sources.previous_merges.ref]]
            ELSE [present |-> FALSE, items |-> <<>>]]]

is_merged_file(log_data) == log_data.merged_sources.present

-----------------------------------------------------------------------------
(* The sort: list.sort(key=get_timestamp) of CPython, for lists shorter    *)
(* than 64 (one run: count_run, then binary insertion).                    *)

\* record.get("timestamp", 0); a non-object has no get (AttributeError).
HasGet(record) == record.type = "object"
get_timestamp(record) ==
    IF record.timestamp.t = "missing" THEN Num(0) ELSE record.timestamp

\* A faulty variant of Lt: on strings it is <=, not <.
LtStringsLeq(a, b) ==
    IF a.t = "num" /\ b.t = "num" THEN (IF a.n < b.n THEN "T" ELSE "F")
    ELSE IF a.t \in {"num", "nan"} /\ b.t \in {"num", "nan"} THEN "F"
    ELSE IF a.t = "str" /\ b.t = "str" THEN (IF a.n <= b.n THEN "T" ELSE "F")
    ELSE "E"

\* a < b on keys: "T", "F", or "E" (TypeError).  NaN is less than nothing
\* and nothing is less than NaN.
Lt(a, b) ==
    IF a.t = "num" /\ b.t = "num" THEN (IF a.n < b.n THEN "T" ELSE "F")
    ELSE IF a.t \in {"num", "nan"} /\ b.t \in {"num", "nan"} THEN "F"
    ELSE IF a.t = "str" /\ b.t = "str" THEN (IF a.n < b.n THEN "T" ELSE "F")
    ELSE "E"

KeyLt(s, i, j) == Lt(get_timestamp(s[i]), get_timestamp(s[j]))

Reverse(s, n) == [i \in 1..Len(s) |-> IF i <= n THEN s[n + 1 - i] ELSE s[i]]

\* count_run: the length of the run that starts the list and whether it is
\* strictly descending; length 0 when a comparison raised.
RECURSIVE RunEnd(_, _, _)
RunEnd(s, n, desc) ==
    IF n = Len(s) THEN n
    ELSE LET c == KeyLt(s, n + 1, n) IN
         IF c = "E" THEN 0
         ELSE IF (c = "T") = desc THEN RunEnd(s, n + 1, desc)
         ELSE n

count_run(s) ==
    LET c == KeyLt(s, 2, 1) IN
    IF c = "E" THEN [n |-> 0, descending |-> FALSE]
    ELSE [n |-> RunEnd(s, 2, c = "T"), descending |-> (c = "T")]

\* A faulty variant of Bisect: the pivot goes before the keys equal to it.
RECURSIVE BisectLeft(_, _, _, _)
BisectLeft(s, pivot, l, r) ==
    IF l >= r THEN l
    ELSE LET p == l + ((r - l) \div 2)
             c == Lt(get_timestamp(s[p]), get_timestamp(pivot)) IN
         IF c = "E" THEN 0
         ELSE IF c = "F" THEN BisectLeft(s, pivot, l, p)
         ELSE BisectLeft(s, pivot, p + 1, r)

\* The binary search of binarysort: where the pivot goes in s[1..start-1],
\* after the keys equal to it; 0 when a comparison raised.
RECURSIVE Bisect(_, _, _, _)
Bisect(s, pivot, l, r) ==
    IF l >= r THEN l
    ELSE LET p == l + ((r - l) \div 2)
             c == Lt(get_timestamp(pivot), get_timestamp(s[p])) IN
         IF c = "E" THEN 0
         ELSE IF c = "T" THEN Bisect(s, pivot, l, p)
         ELSE Bisect(s, pivot, p + 1, r)

InsertAt(s, start, l) ==
    [i \in 1..Len(s) |->
        IF i < l \/ i > start THEN s[i]
        ELSE IF i = l THEN s[start]
        ELSE s[i - 1]]

\* binarysort: insert s[start], s[start+1], ... into the sorted prefix.  A
\* comparison that raises leaves the list as the insertions so far made it.
RECURSIVE binarysort(_, _)
binarysort(s, start) ==
    IF start > Len(s) THEN [ok |-> TRUE, list |-> s]
    ELSE LET l == Bisect(s, s[start], 1, start) IN
         IF l = 0 THEN [ok |-> FALSE, list |-> s]
         ELSE binarysort(InsertAt(s, start, l), start + 1)

\* A faulty variant of list_sort: a descending run is not reversed.
list_sort_no_reverse(s) ==
    IF Len(s) < 2 THEN [ok |-> TRUE, list |-> s]
    ELSE LET run == count_run(s) IN
         IF run.n = 0 THEN [ok |-> FALSE, list |-> s]
         ELSE binarysort(s, run.n + 1)

\* list.sort(key=get_timestamp) on a list of objects.
list_sort(s) ==
    IF Len(s) < 2 THEN [ok |-> TRUE, list |-> s]
    ELSE LET run == count_run(s) IN
         IF run.n = 0 THEN [ok |-> FALSE, list |-> s]
         ELSE binarysort(IF run.descending THEN Reverse(s, run.n) ELSE s, run.n + 1)

-----------------------------------------------------------------------------
(* create_merged_metadata *)

\* A faulty variant of new_merged_info: the base file is not counted.
new_merged_info_miscount(base_file, additional, now) ==
    [present |-> TRUE,
     merged_at |-> now,
     base_file |-> base_file,
     additional_files |-> additional,
     total_files_merged |-> Len(additional),
     previous_merges |-> [present |-> FALSE, ref |-> FreshRef]]

\* Lines 33-38: the lineage of a merge whose base is not a merged file.
new_merged_info(base_file, additional, now) ==
    [present |-> TRUE,
     merged_at |-> now,
     base_file |-> base_file,
     additional_files |-> additional,
     total_files_merged |-> Len(additional) + 1,
     previous_merges |-> [present |-> FALSE, ref |-> FreshRef]]

\* A faulty variant of inherited_base_file: the immediate base replaces the
\* original one.
inherited_base_file_immediate(existing_sources, base_file) == base_file

\* Line 43: existing_sources.get("base_file", base_file).
inherited_base_file(existing_sources, base_file) == existing_sources.base_file

\* Line 48: existing_sources.get("previous_merges", []): the list of the base
\* document itself when it has one, a new empty list otherwise.
inherited_previous_merges(existing_sources) ==
    IF existing_sources.previous_merges.present
    THEN existing_sources.previous_merges.ref
    ELSE FreshRef

\* The lineage of the result, and the heap after the call.
create_merged_metadata(base_file, additional, base_data, now, h) ==
    IF is_merged_file(base_data)
    THEN LET existing_sources == base_data.merged_sources
             ref == inherited_previous_merges(existing_sources)
             entry == [merged_at |-> existing_sources.merged_at,
                       files_in_merge |-> <<existing_sources.base_file>>
                                          \o existing_sources.additional_files]
         IN [merged_info |->
                [new_merged_info(base_file, additional, now) EXCEPT
                    !.base_file = inherited_base_file(existing_sources, base_file),
                    !.additional_files = existing_sources.additional_files \o additional,
                    !.total_files_merged =
                        Len(existing_sources.additional_files \o additional) + 1,
                    !.previous_merges = [present |-> TRUE, ref |-> ref]],
             heap |-> [h EXCEPT ![ref] = Append(@, entry)]]
    ELSE [merged_info |-> new_merged_info(base_file, additional, now), heap |-> h]

-----------------------------------------------------------------------------
(* merge_log_files, step by step *)

\* A faulty variant of Invalid: the type of "data" is not checked.
InvalidMissingOnly(log_data) == log_data.data.kind = "missing"

\* The first document that fails the checks of lines 77-81, 0 if none.
Invalid(log_data) == log_data.data.kind # "list"
FirstInvalid(list) ==
    IF \E i \in 1..Len(list) : Invalid(list[i].log_data)
    THEN CHOOSE i \in 1..Len(list) :
            /\ Invalid(list[i].log_data)
            /\ \A j \in 1..(i - 1) : ~Invalid(list[j].log_data)
    ELSE 0

validation_error(filepath, log_data) ==
    IF log_data.data.kind = "missing"
    THEN [kind |-> "MissingDataField", file |-> filepath]
    ELSE IF log_data.data.kind # "list"
    THEN [kind |-> "InvalidDataType", file |-> filepath]
    ELSE NoError

RECURSIVE Extend(_, _, _)
Extend(records, list, i) ==
    IF i > Len(list) THEN records
    ELSE Extend(records \o list[i].log_data.data.items, list, i + 1)

\* main calls merge_log_files: the length check, then every file is loaded.
Start(paths) ==
    /\ pc \in {"idle", "failed"}
    /\ clock < MaxClock
    /\ file_paths' = paths
    /\ all_data_records' = <<>>
    /\ additional_files' = <<>>
    /\ merged_result' = NoDoc
    /\ chain' = <<>>
    /\ IF Len(paths) < 2
       THEN /\ pc' = "failed"
            /\ error' = [kind |-> "InsufficientInputs", file |-> ""]
            /\ log_data_list' = <<>>
            /\ heap' = [r \in Refs |-> <<>>]
       ELSE /\ pc' = "loaded"
            /\ error' = NoError
            /\ log_data_list' =
                  [i \in 1..Len(paths) |->
                      [filepath |-> paths[i],
                       log_data |-> load_json_file(files[paths[i]], i)]]
            /\ heap' = [r \in Refs |->
                          IF r \in 1..Len(paths)
                          THEN files[paths[r]].merged_sources.previous_merges.items
                          ELSE <<>>]
    /\ UNCHANGED <<files, clock, chains>>

\* Lines 77-81: every document has a list under "data".
Validate ==
    /\ pc = "loaded"
    /\ LET i == FirstInvalid(log_data_list) IN
       IF i # 0
       THEN /\ pc' = "failed"
            /\ error' = validation_error(log_data_list[i].filepath,
                                         log_data_list[i].log_data)
       ELSE /\ pc' = "validated"
            /\ error' = error
    /\ UNCHANGED <<files, clock, file_paths, log_data_list, heap,
                   all_data_records, additional_files, merged_result, chains, chain>>

\* Lines 83-91: the copy of the base, the concatenation, the additional paths.
Concat ==
    /\ pc = "validated"
    /\ merged_result' = log_data_list[1].log_data
    /\ all_data_records' = Extend(<<>>, log_data_list, 1)
    /\ additional_files' =
          [i \in 1..(Len(log_data_list) - 1) |-> log_data_list[i + 1].filepath]
    /\ pc' = "combined"
    /\ UNCHANGED <<files, clock, file_paths, log_data_list, heap, error, chains, chain>>

\* Lines 93-102: the sort, with TypeError swallowed.
Sort ==
    /\ pc = "combined"
    /\ IF \E i \in 1..Len(all_data_records) : ~HasGet(all_data_records[i])
       THEN /\ pc' = "failed"
            /\ error' = [kind |-> "AttributeError", file |-> ""]
            /\ UNCHANGED <<all_data_records, merged_result>>
       ELSE /\ pc' = "sorted"
            /\ all_data_records' = list_sort(all_data_records).list
            /\ merged_result' =
                  [merged_result EXCEPT
                      !.data = DataList(list_sort(all_data_records).list)]
            /\ error' = error
    /\ UNCHANGED <<files, clock, file_paths, log_data_list, heap, additional_files,
                   chains, chain>>

\* Lines 104-107: the lineage; the merged document is returned.
Metadata ==
    /\ pc = "sorted"
    /\ LET made == create_merged_metadata(log_data_list[1].filepath, additional_files,
                                          log_data_list[1].log_data, clock, heap) IN
       /\ merged_result' = [merged_result EXCEPT !.merged_sources = made.merged_info]
       /\ heap' = made.heap
    /\ clock' = clock + 1
    /\ chain' = Append(chains[log_data_list[1].filepath],
                       [base |-> log_data_list[1].filepath,
                        additional |-> additional_files,
                        merged_at |-> clock])
    /\ pc' = "done"
    /\ UNCHANGED <<files, file_paths, log_data_list, all_data_records,
                   additional_files, error, chains>>

\* main, lines 156-160: the merged document is written to the output path.
Write(out) ==
    /\ pc = "done"
    /\ files' = [p \in DOMAIN files \cup {out} |->
                    IF p = out THEN Dump(merged_result, heap) ELSE files[p]]
    /\ chains' = [p \in DOMAIN files \cup {out} |->
                     IF p = out THEN chain ELSE chains[p]]
    /\ pc' = "idle"
    /\ UNCHANGED <<clock, file_paths, log_data_list, heap, all_data_records,
                   additional_files, merged_result, error, chain>>

-----------------------------------------------------------------------------
\* Initial states.  Every file that exists before the first run is a document
\* without merged_sources whose "data" is drawn from the set given.
Lists(records) == {DataList(s) : s \in SeqsUpTo(records, MaxRecs)}
Unmerged(data) == {[data |-> d, merged_sources |-> NoSources] : d \in data}

InitFrom(disk, now) ==
    /\ files \in disk
    /\ clock = now
    /\ pc = "idle"
    /\ file_paths = <<>>
    /\ log_data_list = <<>>
    /\ heap = [r \in Refs |-> <<>>]
    /\ all_data_records = <<>>
    /\ additional_files = <<>>
    /\ merged_result = NoDoc
    /\ error = NoError
    /\ chains = [p \in InitialIds |-> <<>>]
    /\ chain = <<>>

InitWith(data, now) == InitFrom([InitialIds -> Unmerged(data)], now)

\* Repeated merges of small files, from the first tick of the clock.
ChainRecords == {Obj(Num(1)), Obj(Missing)}
Init == InitWith({DataList(<<r>>) : r \in ChainRecords}, 0)

\* One merge (the clock is at its last tick) of files with numeric or
\* missing timestamps, or with a bad "data" field.
SortRecords == {Obj(Num(n)) : n \in -1..1} \cup {Obj(NaN), Obj(Missing)}
InitSort == InitWith({NoData, NotAList} \cup Lists(SortRecords), MaxClock - 1)

\* One merge of a long file x with itself or with a file y that is empty or
\* holds one record without timestamp.
LongLists(records) == {DataList(s) : s \in SeqsUpTo(records, MaxLong)}
ShortLists == {DataList(<<>>), DataList(<<Obj(Missing)>>)}
LongDisk ==
    {[p \in InitialIds |-> IF p = "x" THEN long ELSE short] :
        long \in Unmerged(LongLists(SortRecords)), short \in Unmerged(ShortLists)}
InitLong == InitFrom(LongDisk, MaxClock - 1)

\* One merge of files with string timestamps, alone or beside a numeric or
\* a missing one.
StringRecords ==
    {Obj(Str(n)) : n \in 1..2} \cup {ObjWith(Str(1), 1), Obj(Num(0)), Obj(Missing)}
InitStrings == InitWith(Lists(StringRecords), MaxClock - 1)

\* One merge of files with records of every kind.
MixedRecords == SortRecords \cup StringRecords \cup {Obj(Null), Scalar}
InitMixed == InitWith(Lists(MixedRecords), MaxClock - 1)

Paths == UNION {[1..k -> DOMAIN files] : k \in 1..MaxInputs}

Next ==
    \/ \E paths \in Paths : Start(paths)
    \/ Validate
    \/ Concat
    \/ Sort
    \/ Metadata
    \/ \E out \in OutputIds : Write(out)

Spec == Init /\ [][Next]_vars
SpecSort == InitSort /\ [][Next]_vars
SpecLong == InitLong /\ [][Next]_vars
SpecStrings == InitStrings /\ [][Next]_vars
SpecMixed == InitMixed /\ [][Next]_vars

-----------------------------------------------------------------------------
(* Properties *)

TypeOK == pc \in {"idle", "loaded", "validated", "combined", "sorted", "done", "failed"}

\* The inputs of the current run, as they are on disk.
InputData(i) == files[file_paths[i]].data
Inputs == 1..Len(file_paths)
ValidInputs == Len(file_paths) >= 2 /\ \A i \in Inputs : InputData(i).kind = "list"

RECURSIVE ConcatFrom(_)
ConcatFrom(i) ==
    IF i > Len(file_paths) THEN <<>> ELSE InputData(i).items \o ConcatFrom(i + 1)
\* base.data ++ additional_1.data ++ ... ++ additional_n.data
Concatenation == ConcatFrom(1)

RECURSIVE SumOfLengths(_)
SumOfLengths(i) ==
    IF i > Len(file_paths) THEN 0 ELSE Len(InputData(i).items) + SumOfLengths(i + 1)

RunOver == pc \in {"done", "failed"}
ResultData == merged_result.data.items
ResultLineage == Dump(merged_result, heap).merged_sources

IsObject(r) == r.type = "object"
TsKind(r) == r.timestamp.t
\* The timestamp a record without one is ordered by.
Effective(r) == IF TsKind(r) = "missing" THEN 0 ELSE r.timestamp.n
\* a <= b on the effective timestamps of two records; never so with NaN.
Leq(r1, r2) ==
    /\ TsKind(r1) \in {"num", "missing"}
    /\ TsKind(r2) \in {"num", "missing"}
    /\ Effective(r1) <= Effective(r2)
\* The record with its missing timestamp written out as 0.
Zeroed(r) ==
    IF IsObject(r) /\ TsKind(r) = "missing" THEN [r EXCEPT !.timestamp = Num(0)] ELSE r
ZeroedAll(s) == [i \in 1..Len(s) |-> Zeroed(s[i])]

RECURSIVE Filter(_, _, _)
Filter(s, kind, n) ==
    IF s = <<>> THEN <<>>
    ELSE IF (IF TsKind(Head(s)) = "missing" THEN "num" ELSE TsKind(Head(s))) = kind
            /\ Effective(Head(s)) = n
         THEN <<Head(s)>> \o Filter(Tail(s), kind, n)
         ELSE Filter(Tail(s), kind, n)

NonDecreasing(s) == \A i \in 1..(Len(s) - 1) : Leq(s[i], s[i + 1])
\* Records with the same key are in the same order in s as in t.
SameOrderAmongEqual(s, t) ==
    \A kind \in {"num", "str"} : \A n \in -1..2 : Filter(s, kind, n) = Filter(t, kind, n)

\* C1: a run with fewer than 2 inputs, or with an input whose "data" is
\* missing or is not a list, raises the error of its case and returns no
\* document: InsufficientInputs for fewer than 2 inputs; otherwise the error
\* names an offending document (the first in input order) and is
\* MissingDataField when that document has no "data", InvalidDataType when
\* its "data" is not a list; and nothing
\* is concatenated or built before every document has passed the checks.
C1_ValidationErrors ==
    LET bad == {i \in Inputs : InputData(i).kind # "list"} IN
    /\ pc \in {"validated", "combined", "sorted", "done"}
          => Len(file_paths) >= 2 /\ bad = {}
    /\ pc \in {"loaded", "validated"}
          => /\ all_data_records = <<>>
             /\ additional_files = <<>>
             /\ merged_result = NoDoc
    /\ (pc = "failed" /\ Len(file_paths) < 2)
          => error = [kind |-> "InsufficientInputs", file |-> ""] /\ merged_result = NoDoc
    /\ (pc = "failed" /\ Len(file_paths) >= 2 /\ bad # {})
          => /\ \E i \in bad :
                  /\ \A j \in bad : i <= j
                  /\ error.file = file_paths[i]
                  /\ error.kind = IF InputData(i).kind = "missing"
                                  THEN "MissingDataField"
                                  ELSE "InvalidDataType"
             /\ all_data_records = <<>>
             /\ additional_files = <<>>
             /\ merged_result = NoDoc
             /\ \A i \in Inputs :
                    Dump(log_data_list[i].log_data, heap) = files[file_paths[i]]

\* The base is valid and an additional document has no "data".
C1_Witness ==
    /\ pc = "failed"
    /\ Len(file_paths) >= 2
    /\ InputData(1).kind = "list"
    /\ error = [kind |-> "MissingDataField", file |-> file_paths[Len(file_paths)]]

\* The additional paths of the first i merges of a chain, in order.
RECURSIVE Accumulated(_, _)
Accumulated(c, i) == IF i = 0 THEN <<>> ELSE Accumulated(c, i - 1) \o c[i].additional

\* C2: after a chain of k merges, each on the result of the one before, the
\* lineage names the first base, the additional paths of all k merges in
\* order, their number plus one, and one previous_merges entry for each of
\* the first k-1 merges, with that merge's time and the files merged so far.
C2_ChainLineage ==
    pc = "done" =>
        LET k == Len(chain) IN
        /\ k >= 1
        /\ ResultLineage.present
        /\ ResultLineage.merged_at = chain[k].merged_at
        /\ ResultLineage.base_file = chain[1].base
        /\ ResultLineage.additional_files = Accumulated(chain, k)
        /\ ResultLineage.total_files_merged = Len(Accumulated(chain, k)) + 1
        /\ ResultLineage.previous_merges.items =
              [i \in 1..(k - 1) |->
                  [merged_at |-> chain[i].merged_at,
                   files_in_merge |-> <<chain[1].base>> \o Accumulated(chain, i)]]

\* A third merge in a chain, whose base is stored under another path than
\* the first base.
C2_Witness ==
    /\ pc = "done"
    /\ Len(chain) = 3
    /\ file_paths[1] # chain[1].base
    /\ chain[2].additional # chain[3].additional

\* C3 as stated: when every record of every input is an object with a
\* numeric timestamp (NaN too, a float for json.load), the merge returns and
\* the data of the result is in non-decreasing order of timestamp.
C3_SortedAnyNumber ==
    (   /\ RunOver
        /\ ValidInputs
        /\ \A i \in 1..Len(Concatenation) :
              IsObject(Concatenation[i]) /\ TsKind(Concatenation[i]) \in {"num", "nan"})
    => /\ pc = "done"
       /\ Len(ResultData) = Len(Concatenation)
       /\ NonDecreasing(ResultData)

\* C3 without NaN: when every record of every input is an object with a
\* numeric timestamp that is not NaN, the merge returns and the data of the
\* result is in non-decreasing order of timestamp.
C3_SortedByTimestamp ==
    (   /\ RunOver
        /\ ValidInputs
        /\ \A i \in 1..Len(Concatenation) :
              IsObject(Concatenation[i]) /\ TsKind(Concatenation[i]) = "num")
    => /\ pc = "done"
       /\ Len(ResultData) = Len(Concatenation)
       /\ NonDecreasing(ResultData)

\* Three or more numeric records that were not in order.
C3_Witness ==
    /\ pc = "done"
    /\ Len(Concatenation) >= 3
    /\ \A i \in 1..Len(Concatenation) : TsKind(Concatenation[i]) = "num"
    /\ ~NonDecreasing(Concatenation)

\* C4 as stated: when some records have no timestamp and the others a
\* numeric one (NaN too, a float for json.load), a record without timestamp
\* is ordered as one with timestamp 0 is (the result is the one of the same
\* inputs with 0 written out), and records with equal effective timestamp
\* keep their order of the concatenation.
C4_MissingAsZeroStableAnyNumber ==
    (   /\ RunOver
        /\ ValidInputs
        /\ \A i \in 1..Len(Concatenation) :
              /\ IsObject(Concatenation[i])
              /\ TsKind(Concatenation[i]) \in {"num", "nan", "missing"}
        /\ \E i \in 1..Len(Concatenation) : TsKind(Concatenation[i]) = "missing")
    => /\ pc = "done"
       /\ Len(ResultData) = Len(Concatenation)
       /\ ZeroedAll(ResultData) = list_sort(ZeroedAll(Concatenation)).list
       /\ SameOrderAmongEqual(ResultData, Concatenation)

\* C4 without NaN: when some records have no timestamp and the others a
\* numeric one that is not NaN, a record without timestamp is ordered as one
\* with timestamp 0 is (the result is the one of the same inputs with 0
\* written out, and is in non-decreasing order of effective timestamp), and
\* records with equal effective timestamp keep their order of the
\* concatenation.
C4_MissingAsZeroStable ==
    (   /\ RunOver
        /\ ValidInputs
        /\ \A i \in 1..Len(Concatenation) :
              /\ IsObject(Concatenation[i])
              /\ TsKind(Concatenation[i]) \in {"num", "missing"}
        /\ \E i \in 1..Len(Concatenation) : TsKind(Concatenation[i]) = "missing")
    => /\ pc = "done"
       /\ Len(ResultData) = Len(Concatenation)
       /\ ZeroedAll(ResultData) = list_sort(ZeroedAll(Concatenation)).list
       /\ NonDecreasing(ResultData)
       /\ SameOrderAmongEqual(ResultData, Concatenation)

\* A record without timestamp ends between a negative and a positive one,
\* next to a record with timestamp 0, and the sort moved records.
C4_Witness ==
    /\ pc = "done"
    /\ ResultData # Concatenation
    /\ \A i \in 1..Len(ResultData) : TsKind(ResultData[i]) \in {"num", "missing"}
    /\ \E i \in 1..Len(ResultData) : \E j \in 1..Len(ResultData) :
          \E m \in (i + 1)..(j - 1) :
              /\ ResultData[i] = Obj(Num(-1))
              /\ ResultData[j] = Obj(Num(1))
              /\ ResultData[m] = Obj(Missing)
              /\ ResultData[m + 1] = Obj(Num(0))

\* C5 as stated: with a base that has no merged_sources, the lineage names
\* the base path, the additional paths of the run, the number of inputs,
\* and has a previous_merges field that is the empty sequence.
C5_FreshLineagePresent ==
    (pc = "done" /\ ~files[file_paths[1]].merged_sources.present)
    => /\ ResultLineage.base_file = file_paths[1]
       /\ ResultLineage.additional_files = Tail(file_paths)
       /\ ResultLineage.total_files_merged = Len(file_paths)
       /\ ResultLineage.previous_merges.present
       /\ ResultLineage.previous_merges.items = <<>>

\* C5 as the code has it: the same, but the lineage has no previous_merges
\* field at all.
C5_FreshLineage ==
    (pc = "done" /\ ~files[file_paths[1]].merged_sources.present)
    => /\ ResultLineage.present
       /\ ResultLineage.base_file = file_paths[1]
       /\ ResultLineage.additional_files = Tail(file_paths)
       /\ ResultLineage.total_files_merged = Len(file_paths)
       /\ ~ResultLineage.previous_merges.present

\* A merge of two different files, the base without merged_sources, at a
\* time when merged files exist too.
C5_Witness ==
    /\ pc = "done"
    /\ ~files[file_paths[1]].merged_sources.present
    /\ file_paths[1] # file_paths[2]
    /\ \E p \in DOMAIN files : files[p].merged_sources.present

\* C6: for inputs that all have a list under "data", the merge returns a
\* document whose data has as many records as the inputs have together.
C6_LengthIsSum ==
    (RunOver /\ ValidInputs)
    => pc = "done" /\ Len(ResultData) = SumOfLengths(1)

\* C7: a data list with elements that are not objects is accepted: the
\* merge returns, and every record of the inputs is in the result.
C7_NonObjectsAccepted ==
    (   /\ RunOver
        /\ ValidInputs
        /\ \E i \in 1..Len(Concatenation) : ~IsObject(Concatenation[i]))
    => /\ pc = "done"
       /\ \A r \in {Concatenation[i] : i \in 1..Len(Concatenation)} :
             Cardinality({j \in 1..Len(ResultData) : ResultData[j] = r})
                = Cardinality({j \in 1..Len(Concatenation) : Concatenation[j] = r})

\* Two sort keys cannot be compared: their types differ, or they are null.
KeyKind(r) == IF TsKind(r) \in {"missing", "nan"} THEN "num" ELSE TsKind(r)
Incomparable(r1, r2) == KeyKind(r1) # KeyKind(r2) \/ KeyKind(r1) = "null"

\* C8: when two records of the inputs have sort keys that cannot be
\* compared, the merge returns the records in the order of the
\* concatenation, with the lineage attached.
C8_FallbackIsConcatenation ==
    (   /\ RunOver
        /\ ValidInputs
        /\ \A i \in 1..Len(Concatenation) : IsObject(Concatenation[i])
        /\ \E i \in 1..Len(Concatenation) : \E j \in 1..Len(Concatenation) :
              i # j /\ Incomparable(Concatenation[i], Concatenation[j]))
    => /\ pc = "done"
       /\ ResultData = Concatenation
       /\ ResultLineage.present

AllStrings(s) == \A i \in 1..Len(s) : IsObject(s[i]) /\ TsKind(s[i]) = "str"

\* C9 as stated: when every record has a string timestamp, all effective
\* timestamps are 0 and the result is in the order of the concatenation.
C9_StringsAsZero ==
    (pc = "done" /\ AllStrings(Concatenation)) => ResultData = Concatenation

\* C9 as the code has it: a string timestamp is the sort key itself; when
\* every record has one, the result is in non-decreasing order of the
\* strings, and records with equal strings (they may differ in their other
\* fields) are in their order of the concatenation.
C9_StringsOrdered ==
    (RunOver /\ ValidInputs /\ AllStrings(Concatenation))
    => /\ pc = "done"
       /\ Len(ResultData) = Len(Concatenation)
       /\ \A i \in 1..(Len(ResultData) - 1) :
             ResultData[i].timestamp.n <= ResultData[i + 1].timestamp.n
       /\ SameOrderAmongEqual(ResultData, Concatenation)

\* The sort moved records with string timestamps, and two records with the
\* same string and different other fields, one of each input, stand in the
\* result as in the concatenation: the one of the base first.
C9_Witness ==
    /\ pc = "done"
    /\ AllStrings(Concatenation)
    /\ ResultData # Concatenation
    /\ InputData(1).items = <<Obj(Str(2)), ObjWith(Str(1), 1)>>
    /\ InputData(2).items = <<Obj(Str(1))>>
    /\ \E i \in 1..(Len(ResultData) - 1) :
          ResultData[i] = ObjWith(Str(1), 1) /\ ResultData[i + 1] = Obj(Str(1))

\* C10: a merge leaves every input document as it was loaded, and the
\* previous_merges list of the result is not the list of the base.
C10_InputsUnchanged ==
    pc = "done" =>
        /\ \A i \in Inputs :
              Dump(log_data_list[i].log_data, heap) = files[file_paths[i]]
        /\ (log_data_list[1].log_data.merged_sources.previous_merges.present
               /\ merged_result.merged_sources.previous_merges.present)
           => merged_result.merged_sources.previous_merges.ref
                 # log_data_list[1].log_data.merged_sources.previous_merges.ref
====
